---- MODULE Spec2Model ----
(***************************************************************************)
(* Model of the arm behaviour (behaviors/arm/src/arm_nodelet.cc): the      *)
(* finite state machine of ArmNodelet, its joint registry, the goal and    *)
(* watchdog timers and the callbacks that drive them.                      *)
(*                                                                         *)
(* Representation of the numbers.  Joint values, goals and tolerances are  *)
(* doubles in the source; the model uses integers.  Pan and tilt driver    *)
(* positions are radians in the source and are represented here in units   *)
(* of pi/180 rad, so that multiplying by K_RADS_TO_DEGS is exact (scale    *)
(* 1/1).  The gripper scale (K_GRIPPER_OPEN - K_GRIPPER_CLOSE) / 100 is    *)
(* the fraction 25/100.                                                    *)
(***************************************************************************)
EXTENDS Integers, Sequences, FiniteSets, TLC

(***************************************************************************)
(* Constant values, arm_nodelet.cc:914-929                                 *)
(***************************************************************************)
K_PAN_OFFSET ==
  0
K_PAN_MIN ==
  -90
K_PAN_MAX ==
  90
K_PAN_STOW ==
  0
K_PAN_DEPLOY ==
  0
K_TILT_OFFSET ==
  90
K_TILT_MIN ==
  -20
K_TILT_MAX ==
  180
K_TILT_STOW ==
  180
K_TILT_DEPLOY ==
  0
K_TILT_SAFE ==
  90
K_GRIPPER_STOW ==
  20
K_GRIPPER_DEPLOY ==
  20
K_GRIPPER_OPEN ==
  45
K_GRIPPER_CLOSE ==
  20
K_GRIPPER_CAL ==
  -100

\* fabs(new_p - K_PAN_STOW) > 0.1 on integers: the margin 0.1 lies strictly
\* between 0 and 1, so |d| > 0.1 iff 10 * |d| > 1.
PanMarginTenths ==
  1

(***************************************************************************)
(* Types                                                                   *)
(***************************************************************************)
\* enum JointType { PAN, TILT, GRIPPER }
JointType ==
  {"PAN", "TILT", "GRIPPER"}

\* ff_msgs::ArmState, the states named by the switch of UpdateCallback
ArmState ==
  {"INITIALIZING", "UNKNOWN", "STOWED", "DEPLOYED", "PANNING", "TILTING",
   "SETTING", "CALIBRATING", "STOWING_SETTING", "STOWING_PANNING",
   "STOWING_TILTING", "DEPLOYING_PANNING", "DEPLOYING_TILTING"}

\* The states in which a goal is being tracked (switch of Result)
TrackingStates ==
  {"PANNING", "TILTING", "SETTING", "CALIBRATING", "STOWING_SETTING",
   "STOWING_PANNING", "STOWING_TILTING", "DEPLOYING_PANNING",
   "DEPLOYING_TILTING"}

\* enum : FSM::Event
Event ==
  {"READY", "DEPLOYED", "STOWED", "GOAL_DEPLOY", "GOAL_STOW", "GOAL_MOVE",
   "GOAL_CALIBRATE", "GOAL_SET", "GOAL_CANCEL", "PAN_COMPLETE",
   "TILT_COMPLETE", "GRIPPER_COMPLETE", "CALIBRATE_COMPLETE", "TIMEOUT"}

NoEvent ==
  "NONE"

\* The commands of ff_msgs::ArmGoal the switch of GoalCallback names; any
\* other value of goal->command is represented by "OTHER".
Command ==
  {"ARM_STOP", "ARM_DEPLOY", "ARM_STOW", "ARM_PAN", "ARM_TILT", "ARM_MOVE",
   "GRIPPER_CALIBRATE", "GRIPPER_SET", "GRIPPER_OPEN", "GRIPPER_CLOSE",
   "OTHER"}

\* The sign of a response code of ff_msgs::ArmResult: SUCCESS is the one
\* positive code, every failure code is negative.
Sign(response) ==
  IF response = "SUCCESS" THEN 1
  ELSE IF response = "PREEMPTED" THEN 0
  ELSE -1

\* The response codes of ff_msgs::ArmResult: the ones the nodelet names and
\* the code zero, which Result sends as preempted
Response ==
  {"SUCCESS", "PREEMPTED", "PAN_FAILED", "TILT_FAILED", "GRIPPER_FAILED",
   "CALIBRATE_FAILED", "BAD_PAN_VALUE", "BAD_TILT_VALUE", "BAD_GRIPPER_VALUE",
   "COLLISION_AVOIDED", "NEED_TO_CALIBRATE", "INVALID_COMMAND", "NOT_ALLOWED",
   "COMMUNICATION_ERROR"}

NoResponse ==
  "NONE"

Abs(x) ==
  IF x < 0 THEN -x ELSE x

(***************************************************************************)
(* Inputs                                                                  *)
(***************************************************************************)
\* Longest telemetry batch (number of samples in msg->name)
MaxBatch ==
  1

\* joints_[t].name: the low level joint state names read from the
\* configuration by Initialize
LowLevelName ==
  [PAN |-> "arm_pan", TILT |-> "arm_tilt", GRIPPER |-> "arm_gripper"]

\* dictionary_: reverse lookup for joint name -> generic joint
Dictionary ==
  [n \in {LowLevelName[t] : t \in JointType} |->
     CHOOSE t \in JointType : LowLevelName[t] = n]

\* Names a telemetry sample can carry: the three configured ones and one
\* that is not in the dictionary.
SampleName ==
  DOMAIN Dictionary \cup {"other"}

\* Driver positions a telemetry sample can carry for each name.
SamplePosition(name) ==
  CASE name = "arm_pan"     -> {0, 45}
    [] name = "arm_tilt"    -> {-90, 90}
    [] name = "arm_gripper" -> {-100, 0, 100}
    [] OTHER                -> {0}

Sample ==
  UNION {[name : {n}, position : SamplePosition(n)] : n \in SampleName}

Batch ==
  UNION {[1..n -> Sample] : n \in 0..MaxBatch}

\* Goals the command source can send.  Fields a command does not read are
\* left at the message default 0.
PanRequest ==
  {0, 45, 100}
TiltRequest ==
  {0, 150, 200}
GripperRequest ==
  {20, 45, 60}

Goal ==
       [command : {"ARM_MOVE"}, pan : PanRequest, tilt : TiltRequest, gripper : {0}]
  \cup [command : {"ARM_PAN"}, pan : PanRequest, tilt : {0}, gripper : {0}]
  \cup [command : {"ARM_TILT"}, pan : {0}, tilt : TiltRequest, gripper : {0}]
  \cup [command : {"GRIPPER_SET"}, pan : {0}, tilt : {0}, gripper : GripperRequest]
  \cup [command : Command \ {"ARM_MOVE", "ARM_PAN", "ARM_TILT", "GRIPPER_SET"},
        pan : {0}, tilt : {0}, gripper : {0}]

NoGoal ==
  [command |-> "NONE", pan |-> 0, tilt |-> 0, gripper |-> 0]

\* Tolerances the configuration can supply (tol_pan, tol_tilt, tol_gripper)
Config ==
  {[PAN |-> 1, TILT |-> 1, GRIPPER |-> 1],
   [PAN |-> 3, TILT |-> 3, GRIPPER |-> 3]}

(***************************************************************************)
(* State                                                                   *)
(***************************************************************************)
VARIABLES
  state,           \* fsm_ current state
  val,             \* joints_[t].val
  goal,            \* joints_[t].goal
  tol,             \* joints_[t].tol
  timer_goal,      \* timer_goal_ is pending
  timer_watchdog,  \* timer_watchdog_ is pending
  \* What the last callback did (observations, not program state)
  op,              \* the callback that ran last
  from,            \* the state the last callback found
  request,         \* the goal message of the last GoalCallback
  recognized,      \* the last telemetry batch had a recognized sample
  event,           \* the event the last callback gave to fsm_.Update
  resolved,        \* the last callback called Result
  code,            \* the response code the last callback gave to Result
  results,         \* results sent by the last callback (server_.SendResult)
  commands,        \* joint goals published by the last callback
  feedback,        \* the last callback sent feedback
  \* The action server's view of the goal being served
  accepted,        \* the last goal delivered was not rejected by GoalCallback
  nres             \* results sent since the last goal was delivered (0, 1, 2+)

vars ==
  <<state, val, goal, tol, timer_goal, timer_watchdog, op, from, request,
    recognized, event, resolved, code, results, commands, feedback, accepted,
    nres>>

(***************************************************************************)
(* The machine: the program state together with what the running callback  *)
(* has sent so far.  The operators below take a machine and return the     *)
(* machine the code leaves.                                                *)
(***************************************************************************)
Machine ==
  [state |-> state, val |-> val, goal |-> goal, tol |-> tol,
   timer_goal |-> timer_goal, timer_watchdog |-> timer_watchdog,
   event |-> NoEvent, resolved |-> FALSE, code |-> NoResponse,
   results |-> <<>>, commands |-> <<>>, feedback |-> FALSE]

\* joints_[t].offset, set by Initialize
Offset(t) ==
  CASE t = "PAN"     -> K_PAN_OFFSET
    [] t = "TILT"    -> K_TILT_OFFSET
    [] t = "GRIPPER" -> K_GRIPPER_CLOSE

\* joints_[t].scale, set by Initialize, as the fraction num / den
Scale(t) ==
  CASE t = "PAN"     -> [num |-> 1, den |-> 1]
    [] t = "TILT"    -> [num |-> 1, den |-> 1]
    [] t = "GRIPPER" -> [num |-> K_GRIPPER_OPEN - K_GRIPPER_CLOSE, den |-> 100]

\* HUMAN = SCALE * DRIVER + OFFSET, with the special case of the
\* uncalibrated gripper (JointStateCallback)
ToHuman(t, position) ==
  IF t = "GRIPPER" /\ position = K_GRIPPER_CAL
    THEN K_GRIPPER_CAL
    ELSE (position * Scale(t).num) \div Scale(t).den + Offset(t)

\* DRIVER = (HUMAN - OFFSET) / SCALE (Arm)
ToDriver(t, human) ==
  ((human - Offset(t)) * Scale(t).den) \div Scale(t).num

\* Check if the two angle are sufficiently close, respecting modular math
Equal(m, t, v) ==
  (180 - Abs(Abs(m.val[t] - v) - 180)) < m.tol[t]

\* Faulty variant of IsStowed: the tilt is not looked at
IsStowed_PanOnly(m) ==
  IF ~Equal(m, "PAN", K_PAN_STOW) THEN FALSE
  ELSE TRUE

\* Look at the pan and tilt angles to determine if stowed
IsStowed(m) ==
  IF ~Equal(m, "PAN", K_PAN_STOW) THEN FALSE
  ELSE IF ~Equal(m, "TILT", K_TILT_STOW) THEN FALSE
  ELSE TRUE

\* Faulty variant of RequiresClosing: the calibration value is not
\* looked at
RequiresClosing_IgnoresCalibration(m) ==
  ~Equal(m, "GRIPPER", K_GRIPPER_STOW)

\* Gripper only requires closing if it is calibrated
RequiresClosing(m) ==
  IF Equal(m, "GRIPPER", K_GRIPPER_CAL) THEN FALSE
  ELSE ~Equal(m, "GRIPPER", K_GRIPPER_STOW)

\* Faulty variant of Arm: the goal is published, the timer is not started
Arm_LeavesTimer(m, t) ==
  IF t \notin DOMAIN m.goal
    THEN [ok |-> FALSE, m |-> m]
    ELSE [ok |-> TRUE,
          m  |-> [m EXCEPT
                    !.commands = Append(@, [name |-> LowLevelName[t],
                                            position |-> ToDriver(t, m.goal[t])])]]

\* Send a single joint goal to the low-level controller and start the goal
\* timer.  Returns [ok, m].
Arm(m, t) ==
  IF t \notin DOMAIN m.goal
    THEN [ok |-> FALSE, m |-> m]
    ELSE [ok |-> TRUE,
          m  |-> [m EXCEPT
                    !.commands = Append(@, [name |-> LowLevelName[t],
                                            position |-> ToDriver(t, m.goal[t])]),
                    !.timer_goal = TRUE]]

\* The outcome channel of server_.SendResult chosen from the response code
Channel(response) ==
  IF Sign(response) > 0 THEN "SUCCESS"
  ELSE IF Sign(response) < 0 THEN "ABORTED"
  ELSE "PREEMPTED"

\* Faulty variant of Result: the switch on the state is missing, a result
\* is sent only when the caller forces it
Result_SendsWhenForcedOnly(m, response, send) ==
  LET halted == [m EXCEPT !.goal = m.val, !.resolved = TRUE,
                          !.code = response]
      sent == IF send
                THEN [halted EXCEPT !.results =
                        Append(@, [response |-> response,
                                   channel |-> Channel(response)])]
                ELSE halted
  IN  [next |-> IF response = "COMMUNICATION_ERROR" THEN "INITIALIZING"
                ELSE IF IsStowed(sent) THEN "STOWED"
                ELSE "DEPLOYED",
       m |-> sent]

\* Complete the current action.  Returns [next, m]: the state to go to and
\* the machine with the goals written and the result sent.
Result(m, response, send) ==
  LET halted == [m EXCEPT !.goal = m.val, !.resolved = TRUE,
                          !.code = response]
      sending == send \/ m.state \in TrackingStates
      sent == IF sending
                THEN [halted EXCEPT !.results =
                        Append(@, [response |-> response,
                                   channel |-> Channel(response)])]
                ELSE halted
  IN  [next |-> IF response = "COMMUNICATION_ERROR" THEN "INITIALIZING"
                ELSE IF IsStowed(sent) THEN "STOWED"
                ELSE "DEPLOYED",
       m |-> sent]

\* A transition that arms joint t and goes to state s, or gives up with
\* the response code when the joint goal cannot be sent
ArmOrFail(m, t, s, response) ==
  LET a == Arm(m, t)
  IN  IF ~a.ok THEN Result(a.m, response, FALSE)
      ELSE [next |-> s, m |-> a.m]

(***************************************************************************)
(* The transitions added by the constructor, by their number in the        *)
(* source.  Each returns [next, m].                                        *)
(***************************************************************************)
T0(m) ==
  [next |-> "UNKNOWN", m |-> m]
T1(m) ==
  [next |-> "STOWED", m |-> m]
T2(m) ==
  [next |-> "DEPLOYED", m |-> m]
T3(m) ==
  [next |-> "DEPLOYED", m |-> m]
T4(m) ==
  [next |-> "STOWED", m |-> m]
T5(m) ==
  ArmOrFail(m, "PAN", "DEPLOYING_PANNING", "PAN_FAILED")
\* Faulty variant of T6: the deploy is completed after the pan
T6_CompletesAfterPan(m) ==
  Result(m, "SUCCESS", FALSE)
T6(m) ==
  ArmOrFail(m, "TILT", "DEPLOYING_TILTING", "TILT_FAILED")
T7(m) ==
  Result(m, "SUCCESS", FALSE)
T8(m) ==
  IF RequiresClosing(m)
    THEN ArmOrFail(m, "GRIPPER", "STOWING_SETTING", "GRIPPER_FAILED")
    ELSE ArmOrFail(m, "PAN", "STOWING_PANNING", "PAN_FAILED")
T9(m) ==
  ArmOrFail(m, "PAN", "STOWING_PANNING", "PAN_FAILED")
T10(m) ==
  Result(m, "GRIPPER_FAILED", FALSE)
T11(m) ==
  ArmOrFail(m, "TILT", "STOWING_TILTING", "TILT_FAILED")
\* Faulty variant of T12: the failure of the next step is reported
T12_TiltFailed(m) ==
  Result(m, "TILT_FAILED", FALSE)
T12(m) ==
  Result(m, "PAN_FAILED", FALSE)
\* Faulty variant of T13: a completed stow goes to STOWED without looking
\* at the joints
T13_AlwaysStowed(m) ==
  [next |-> "STOWED", m |-> Result(m, "SUCCESS", FALSE).m]
T13(m) ==
  Result(m, "SUCCESS", FALSE)
T14(m) ==
  Result(m, "TILT_FAILED", FALSE)
T15(m) ==
  ArmOrFail(m, "PAN", "PANNING", "PAN_FAILED")
T16(m) ==
  ArmOrFail(m, "TILT", "TILTING", "TILT_FAILED")
T17(m) ==
  Result(m, "PAN_FAILED", FALSE)
T18(m) ==
  Result(m, "SUCCESS", FALSE)
T19(m) ==
  Result(m, "TILT_FAILED", FALSE)
T20(m) ==
  ArmOrFail(m, "GRIPPER", "SETTING", "GRIPPER_FAILED")
T21(m) ==
  Result(m, "SUCCESS", FALSE)
T22(m) ==
  Result(m, "GRIPPER_FAILED", FALSE)
\* Faulty variant of T23: the joint whose goal the command has set is armed
T23_ArmsTilt(m) ==
  ArmOrFail(m, "TILT", "CALIBRATING", "CALIBRATE_FAILED")
T23(m) ==
  ArmOrFail(m, "GRIPPER", "CALIBRATING", "CALIBRATE_FAILED")
T24(m) ==
  Result(m, "SUCCESS", FALSE)
T25(m) ==
  Result(m, "CALIBRATE_FAILED", FALSE)

\* Faulty variant of Table: transition 16 is added for DEPLOYED as well,
\* the way transition 15 is added for two states
Table_PanCompleteInDeployed ==
  {<<"INITIALIZING", "READY", 0>>,
   <<"UNKNOWN", "STOWED", 1>>,
   <<"UNKNOWN", "DEPLOYED", 2>>,
   <<"STOWED", "DEPLOYED", 3>>,
   <<"DEPLOYED", "STOWED", 4>>,
   <<"STOWED", "GOAL_DEPLOY", 5>>,
   <<"DEPLOYING_PANNING", "PAN_COMPLETE", 6>>,
   <<"DEPLOYING_TILTING", "TILT_COMPLETE", 7>>,
   <<"DEPLOYED", "GOAL_STOW", 8>>,
   <<"STOWING_SETTING", "GRIPPER_COMPLETE", 9>>,
   <<"STOWING_SETTING", "TIMEOUT", 10>>,
   <<"STOWING_SETTING", "GOAL_CANCEL", 10>>,
   <<"STOWING_PANNING", "PAN_COMPLETE", 11>>,
   <<"STOWING_PANNING", "TIMEOUT", 12>>,
   <<"STOWING_PANNING", "GOAL_CANCEL", 12>>,
   <<"STOWING_TILTING", "TILT_COMPLETE", 13>>,
   <<"STOWING_TILTING", "TIMEOUT", 14>>,
   <<"STOWING_TILTING", "GOAL_CANCEL", 14>>,
   <<"STOWED", "GOAL_MOVE", 15>>,
   <<"DEPLOYED", "GOAL_MOVE", 15>>,
   <<"PANNING", "PAN_COMPLETE", 16>>,
   <<"DEPLOYED", "PAN_COMPLETE", 16>>,
   <<"PANNING", "TIMEOUT", 17>>,
   <<"PANNING", "GOAL_CANCEL", 17>>,
   <<"TILTING", "TILT_COMPLETE", 18>>,
   <<"TILTING", "TIMEOUT", 19>>,
   <<"TILTING", "GOAL_CANCEL", 19>>,
   <<"DEPLOYED", "GOAL_SET", 20>>,
   <<"SETTING", "GRIPPER_COMPLETE", 21>>,
   <<"SETTING", "TIMEOUT", 22>>,
   <<"SETTING", "GOAL_CANCEL", 22>>,
   <<"DEPLOYED", "GOAL_CALIBRATE", 23>>,
   <<"CALIBRATING", "CALIBRATE_COMPLETE", 24>>,
   <<"CALIBRATING", "TIMEOUT", 25>>,
   <<"CALIBRATING", "GOAL_CANCEL", 25>>}

\* fsm_.Add: <<state, event, number of the transition>>.  A mask of two
\* events gives one entry per event.
Table ==
  {<<"INITIALIZING", "READY", 0>>,
   <<"UNKNOWN", "STOWED", 1>>,
   <<"UNKNOWN", "DEPLOYED", 2>>,
   <<"STOWED", "DEPLOYED", 3>>,
   <<"DEPLOYED", "STOWED", 4>>,
   <<"STOWED", "GOAL_DEPLOY", 5>>,
   <<"DEPLOYING_PANNING", "PAN_COMPLETE", 6>>,
   <<"DEPLOYING_TILTING", "TILT_COMPLETE", 7>>,
   <<"DEPLOYED", "GOAL_STOW", 8>>,
   <<"STOWING_SETTING", "GRIPPER_COMPLETE", 9>>,
   <<"STOWING_SETTING", "TIMEOUT", 10>>,
   <<"STOWING_SETTING", "GOAL_CANCEL", 10>>,
   <<"STOWING_PANNING", "PAN_COMPLETE", 11>>,
   <<"STOWING_PANNING", "TIMEOUT", 12>>,
   <<"STOWING_PANNING", "GOAL_CANCEL", 12>>,
   <<"STOWING_TILTING", "TILT_COMPLETE", 13>>,
   <<"STOWING_TILTING", "TIMEOUT", 14>>,
   <<"STOWING_TILTING", "GOAL_CANCEL", 14>>,
   <<"STOWED", "GOAL_MOVE", 15>>,
   <<"DEPLOYED", "GOAL_MOVE", 15>>,
   <<"PANNING", "PAN_COMPLETE", 16>>,
   <<"PANNING", "TIMEOUT", 17>>,
   <<"PANNING", "GOAL_CANCEL", 17>>,
   <<"TILTING", "TILT_COMPLETE", 18>>,
   <<"TILTING", "TIMEOUT", 19>>,
   <<"TILTING", "GOAL_CANCEL", 19>>,
   <<"DEPLOYED", "GOAL_SET", 20>>,
   <<"SETTING", "GRIPPER_COMPLETE", 21>>,
   <<"SETTING", "TIMEOUT", 22>>,
   <<"SETTING", "GOAL_CANCEL", 22>>,
   <<"DEPLOYED", "GOAL_CALIBRATE", 23>>,
   <<"CALIBRATING", "CALIBRATE_COMPLETE", 24>>,
   <<"CALIBRATING", "TIMEOUT", 25>>,
   <<"CALIBRATING", "GOAL_CANCEL", 25>>}

\* The callback registered under a transition number
Callback(k, m) ==
  CASE k = 0 -> T0(m)   [] k = 1 -> T1(m)   [] k = 2 -> T2(m)
    [] k = 3 -> T3(m)   [] k = 4 -> T4(m)   [] k = 5 -> T5(m)
    [] k = 6 -> T6(m)   [] k = 7 -> T7(m)   [] k = 8 -> T8(m)
    [] k = 9 -> T9(m)   [] k = 10 -> T10(m) [] k = 11 -> T11(m)
    [] k = 12 -> T12(m) [] k = 13 -> T13(m) [] k = 14 -> T14(m)
    [] k = 15 -> T15(m) [] k = 16 -> T16(m) [] k = 17 -> T17(m)
    [] k = 18 -> T18(m) [] k = 19 -> T19(m) [] k = 20 -> T20(m)
    [] k = 21 -> T21(m) [] k = 22 -> T22(m) [] k = 23 -> T23(m)
    [] k = 24 -> T24(m) [] k = 25 -> T25(m)

\* The entries of the table for state s and event e (none or one)
Entries(s, e) ==
  {r \in Table : r[1] = s /\ r[2] = e}

\* fsm_.Update(event): when the table has an entry for the current state
\* and the event, run its callback and move to the state it returns;
\* otherwise ignore the event.
Update(m, e) ==
  LET raised == [m EXCEPT !.event = e]
      hit == Entries(m.state, e)
  IN  IF hit = {} THEN raised
      ELSE LET r == Callback((CHOOSE x \in hit : TRUE)[3], raised)
           IN  [r.m EXCEPT !.state = r.next]

(***************************************************************************)
(* Callbacks                                                               *)
(***************************************************************************)
\* The loop of JointStateCallback over the samples of msg from index i on:
\* the joint values after the batch
RECURSIVE Ingest(_, _, _)
Ingest(v, msg, i) ==
  IF i > Len(msg) THEN v
  ELSE IF msg[i].name \notin DOMAIN Dictionary THEN Ingest(v, msg, i + 1)
  ELSE LET generic == Dictionary[msg[i].name]
       IN  Ingest([v EXCEPT ![generic] = ToHuman(generic, msg[i].position)],
                  msg, i + 1)

\* jss.samples is not empty after the loop
Recognized(msg) ==
  \E i \in 1..Len(msg) : msg[i].name \in DOMAIN Dictionary

\* The end of JointStateCallback, reached by the cases that break: publish
\* the joint samples and send feedback if in a valid action state
Publish(m) ==
  [m EXCEPT !.feedback = (m.state \in TrackingStates)]

\* Faulty variant of WaitFor: the goal timer is not stopped
WaitFor_KeepsTimer(m, t, v, e) ==
  IF Equal(m, t, v)
    THEN Publish(Update(m, e))
    ELSE Publish(m)

\* A wait state of joint t with target v: when the joint is there, stop the
\* goal timer and raise event e
WaitFor(m, t, v, e) ==
  IF Equal(m, t, v)
    THEN Publish(Update([m EXCEPT !.timer_goal = FALSE], e))
    ELSE Publish(m)

\* Faulty variant of StateSwitch: the test of the STOWED case has lost its
\* negation
StateSwitch_StowedInverted(w) ==
  LET s == w.state
  IN  CASE s = "UNKNOWN" ->
             IF IsStowed(w) THEN Update(w, "STOWED")
             ELSE Update(w, "DEPLOYED")
        [] s = "STOWED" ->
             IF IsStowed(w) THEN Update(w, "DEPLOYED") ELSE Publish(w)
        [] s = "DEPLOYED" ->
             IF IsStowed(w) THEN Update(w, "STOWED") ELSE Publish(w)
        [] s = "INITIALIZING" ->
             Publish(Update(w, "READY"))
        [] s \in {"PANNING", "STOWING_PANNING", "DEPLOYING_PANNING"} ->
             WaitFor(w, "PAN", w.goal["PAN"], "PAN_COMPLETE")
        [] s \in {"TILTING", "STOWING_TILTING", "DEPLOYING_TILTING"} ->
             WaitFor(w, "TILT", w.goal["TILT"], "TILT_COMPLETE")
        [] s \in {"SETTING", "STOWING_SETTING"} ->
             WaitFor(w, "GRIPPER", w.goal["GRIPPER"], "GRIPPER_COMPLETE")
        [] s = "CALIBRATING" ->
             IF ~Equal(w, "GRIPPER", K_GRIPPER_CAL)
               THEN Publish(Update([w EXCEPT !.timer_goal = FALSE],
                                   "CALIBRATE_COMPLETE"))
               ELSE Publish(w)

\* The switch of JointStateCallback on the state, with what follows it:
\* update the state machine from the joint values w has
StateSwitch(w) ==
  LET s == w.state
  IN  CASE s = "UNKNOWN" ->
             IF IsStowed(w) THEN Update(w, "STOWED")
             ELSE Update(w, "DEPLOYED")
        [] s = "STOWED" ->
             IF ~IsStowed(w) THEN Update(w, "DEPLOYED") ELSE Publish(w)
        [] s = "DEPLOYED" ->
             IF IsStowed(w) THEN Update(w, "STOWED") ELSE Publish(w)
        [] s = "INITIALIZING" ->
             Publish(Update(w, "READY"))
        [] s \in {"PANNING", "STOWING_PANNING", "DEPLOYING_PANNING"} ->
             WaitFor(w, "PAN", w.goal["PAN"], "PAN_COMPLETE")
        [] s \in {"TILTING", "STOWING_TILTING", "DEPLOYING_TILTING"} ->
             WaitFor(w, "TILT", w.goal["TILT"], "TILT_COMPLETE")
        [] s \in {"SETTING", "STOWING_SETTING"} ->
             WaitFor(w, "GRIPPER", w.goal["GRIPPER"], "GRIPPER_COMPLETE")
        [] s = "CALIBRATING" ->
             IF ~Equal(w, "GRIPPER", K_GRIPPER_CAL)
               THEN Publish(Update([w EXCEPT !.timer_goal = FALSE],
                                   "CALIBRATE_COMPLETE"))
               ELSE Publish(w)

\* Faulty variant of JointStateCallback: the watchdog timer is reset before
\* the test for an empty set of samples
JointStateCallback_ResetsFirst(m, msg) ==
  IF ~Recognized(msg) THEN [m EXCEPT !.timer_watchdog = TRUE]
  ELSE StateSwitch([m EXCEPT !.val = Ingest(m.val, msg, 1),
                             !.timer_watchdog = TRUE])

\* Called whenever the low-level driver produces updated joint states
JointStateCallback(m, msg) ==
  IF ~Recognized(msg) THEN m
  ELSE StateSwitch([m EXCEPT !.val = Ingest(m.val, msg, 1),
                             !.timer_watchdog = TRUE])

\* The goal timer fired
TimeoutCallback(m) ==
  Update(m, "TIMEOUT")

\* Faulty variant of WatchdogCallback: the state Result returns is dropped
WatchdogCallback_NoSetState(m) ==
  Result(m, "COMMUNICATION_ERROR", FALSE).m

\* The watchdog timer fired: fsm_.SetState(Result(COMMUNICATION_ERROR))
WatchdogCallback(m) ==
  LET r == Result(m, "COMMUNICATION_ERROR", FALSE)
  IN  [r.m EXCEPT !.state = r.next]

\* Faulty variant of Reject: the state Result returns is given to the
\* state machine instead of being dropped
Reject_SetsState(m, response) ==
  LET r == Result(m, response, TRUE)
  IN  [r.m EXCEPT !.state = r.next]

\* A forced result: Result(response, true) with its return value dropped
Reject(m, response) ==
  Result(m, response, TRUE).m

\* Faulty variant of MoveGoal: the pan is checked before the tilt
MoveGoal_PanBeforeTilt(m, g) ==
  LET new_p == IF g.command \in {"ARM_MOVE", "ARM_PAN"}
                 THEN g.pan ELSE m.goal["PAN"]
      new_t == IF g.command \in {"ARM_MOVE", "ARM_TILT"}
                 THEN g.tilt ELSE m.goal["TILT"]
  IN  IF new_p < K_PAN_MIN \/ new_p > K_PAN_MAX
        THEN Reject(m, "BAD_PAN_VALUE")
      ELSE IF new_t < K_TILT_MIN \/ new_t > K_TILT_MAX
        THEN Reject(m, "BAD_TILT_VALUE")
      ELSE IF new_t > K_TILT_SAFE
              /\ 10 * Abs(new_p - K_PAN_STOW) > PanMarginTenths
        THEN Reject(m, "COLLISION_AVOIDED")
      ELSE Update([m EXCEPT !.goal["PAN"] = new_p, !.goal["TILT"] = new_t],
                  "GOAL_MOVE")

\* Faulty variant of MoveGoal: the self-collision check compares the pan
\* with the margin without taking the distance from K_PAN_STOW
MoveGoal_SignedMargin(m, g) ==
  LET new_p == IF g.command \in {"ARM_MOVE", "ARM_PAN"}
                 THEN g.pan ELSE m.goal["PAN"]
      new_t == IF g.command \in {"ARM_MOVE", "ARM_TILT"}
                 THEN g.tilt ELSE m.goal["TILT"]
  IN  IF new_t < K_TILT_MIN \/ new_t > K_TILT_MAX
        THEN Reject(m, "BAD_TILT_VALUE")
      ELSE IF new_p < K_PAN_MIN \/ new_p > K_PAN_MAX
        THEN Reject(m, "BAD_PAN_VALUE")
      ELSE IF new_t > K_TILT_SAFE
              /\ 10 * (K_PAN_STOW - new_p) > PanMarginTenths
        THEN Reject(m, "COLLISION_AVOIDED")
      ELSE Update([m EXCEPT !.goal["PAN"] = new_p, !.goal["TILT"] = new_t],
                  "GOAL_MOVE")

\* ARM_PAN, ARM_TILT and ARM_MOVE in DEPLOYED or STOWED
MoveGoal(m, g) ==
  LET new_p == IF g.command \in {"ARM_MOVE", "ARM_PAN"}
                 THEN g.pan ELSE m.goal["PAN"]
      new_t == IF g.command \in {"ARM_MOVE", "ARM_TILT"}
                 THEN g.tilt ELSE m.goal["TILT"]
  IN  IF new_t < K_TILT_MIN \/ new_t > K_TILT_MAX
        THEN Reject(m, "BAD_TILT_VALUE")
      ELSE IF new_p < K_PAN_MIN \/ new_p > K_PAN_MAX
        THEN Reject(m, "BAD_PAN_VALUE")
      ELSE IF new_t > K_TILT_SAFE
              /\ 10 * Abs(new_p - K_PAN_STOW) > PanMarginTenths
        THEN Reject(m, "COLLISION_AVOIDED")
      ELSE Update([m EXCEPT !.goal["PAN"] = new_p, !.goal["TILT"] = new_t],
                  "GOAL_MOVE")

\* Faulty variant of GripperGoal: the state is checked before the
\* calibration
GripperGoal_StateFirst(m, g) ==
  IF m.state # "DEPLOYED"
    THEN Reject(m, "NOT_ALLOWED")
  ELSE IF m.val["GRIPPER"] < 0
    THEN Reject(m, "NEED_TO_CALIBRATE")
  ELSE IF g.command = "GRIPPER_SET"
            /\ (g.gripper < K_GRIPPER_CLOSE \/ g.gripper > K_GRIPPER_OPEN)
    THEN Reject(m, "BAD_GRIPPER_VALUE")
  ELSE Update([m EXCEPT !.goal["GRIPPER"] =
                 CASE g.command = "GRIPPER_SET"   -> g.gripper
                   [] g.command = "GRIPPER_OPEN"  -> K_GRIPPER_OPEN
                   [] g.command = "GRIPPER_CLOSE" -> K_GRIPPER_CLOSE],
              "GOAL_SET")

\* GRIPPER_SET, GRIPPER_OPEN and GRIPPER_CLOSE
GripperGoal(m, g) ==
  IF m.val["GRIPPER"] < 0
    THEN Reject(m, "NEED_TO_CALIBRATE")
  ELSE IF m.state = "DEPLOYED"
    THEN IF g.command = "GRIPPER_SET"
              /\ (g.gripper < K_GRIPPER_CLOSE \/ g.gripper > K_GRIPPER_OPEN)
           THEN Reject(m, "BAD_GRIPPER_VALUE")
           ELSE Update([m EXCEPT !.goal["GRIPPER"] =
                          CASE g.command = "GRIPPER_SET"   -> g.gripper
                            [] g.command = "GRIPPER_OPEN"  -> K_GRIPPER_OPEN
                            [] g.command = "GRIPPER_CLOSE" -> K_GRIPPER_CLOSE],
                       "GOAL_SET")
  ELSE Reject(m, "NOT_ALLOWED")

\* Faulty variant of StopGoal: pan and tilt are stopped, the gripper goal
\* is not touched
StopGoal_KeepsGripper(m) ==
  Update([m EXCEPT !.goal["PAN"] = m.val["PAN"],
                   !.goal["TILT"] = m.val["TILT"]], "GOAL_CANCEL")

\* ARM_STOP: stop the arm
StopGoal(m) ==
  Update([m EXCEPT !.goal = [PAN |-> m.val["PAN"], TILT |-> m.val["TILT"],
                             GRIPPER |-> m.val["GRIPPER"]]], "GOAL_CANCEL")

\* A new arm action has been called
GoalCallback(m, g) ==
  CASE g.command = "ARM_STOP" ->
         StopGoal(m)
    [] g.command = "ARM_DEPLOY" ->
         IF m.state = "STOWED"
           THEN Update([m EXCEPT !.goal = [PAN |-> K_PAN_DEPLOY,
                                           TILT |-> K_TILT_DEPLOY,
                                           GRIPPER |-> K_GRIPPER_DEPLOY]],
                       "GOAL_DEPLOY")
           ELSE Reject(m, "NOT_ALLOWED")
    [] g.command = "ARM_STOW" ->
         IF m.state = "DEPLOYED"
           THEN Update([m EXCEPT !.goal = [PAN |-> K_PAN_STOW,
                                           TILT |-> K_TILT_STOW,
                                           GRIPPER |-> K_GRIPPER_STOW]],
                       "GOAL_STOW")
           ELSE Reject(m, "NOT_ALLOWED")
    [] g.command \in {"ARM_PAN", "ARM_TILT", "ARM_MOVE"} ->
         IF m.state \in {"DEPLOYED", "STOWED"}
           THEN MoveGoal(m, g)
           ELSE Reject(m, "NOT_ALLOWED")
    [] g.command = "GRIPPER_CALIBRATE" ->
         IF m.state = "DEPLOYED"
           THEN Update([m EXCEPT !.goal["TILT"] = K_GRIPPER_CAL],
                       "GOAL_CALIBRATE")
           ELSE Reject(m, "NOT_ALLOWED")
    [] g.command \in {"GRIPPER_SET", "GRIPPER_OPEN", "GRIPPER_CLOSE"} ->
         GripperGoal(m, g)
    [] OTHER ->
         Reject(m, "INVALID_COMMAND")

\* Preempt the current action with a new action
PreemptCallback(m) ==
  Update(m, "GOAL_CANCEL")

\* A cancellation request arrives
CancelCallback(m) ==
  Update(m, "GOAL_CANCEL")

\* The state is set manually: fsm_.SetState(req.state)
SetStateCallback(m, s) ==
  [m EXCEPT !.state = s]

\* Callback to handle reconfiguration requests
ReconfigureCallback(m, c) ==
  IF m.state \in {"DEPLOYED", "STOWED", "UNKNOWN"}
    THEN [m EXCEPT !.tol = c]
    ELSE m

(***************************************************************************)
(* The state machine of the model                                          *)
(***************************************************************************)
\* The state after construction and Initialize: the joints are value
\* initialised, the timers are created stopped.
Init ==
  /\ state = "INITIALIZING"
  /\ val = [t \in JointType |-> 0]
  /\ goal = [t \in JointType |-> 0]
  /\ tol \in Config
  /\ timer_goal = FALSE
  /\ timer_watchdog = FALSE
  /\ op = "Initialize"
  /\ from = "INITIALIZING"
  /\ request = NoGoal
  /\ recognized = FALSE
  /\ event = NoEvent
  /\ resolved = FALSE
  /\ code = NoResponse
  /\ results = <<>>
  /\ commands = <<>>
  /\ feedback = FALSE
  /\ accepted = FALSE
  /\ nres = 0

\* The callback named o ran and left machine m
Commit(o, m) ==
  /\ op' = o
  /\ from' = state
  /\ state' = m.state
  /\ val' = m.val
  /\ goal' = m.goal
  /\ tol' = m.tol
  /\ timer_goal' = m.timer_goal
  /\ timer_watchdog' = m.timer_watchdog
  /\ event' = m.event
  /\ resolved' = m.resolved
  /\ code' = m.code
  /\ results' = m.results
  /\ commands' = m.commands
  /\ feedback' = m.feedback

\* Results the serving goal has got, counted 0, 1 or "2 and more"
Count(n, sent) ==
  IF n + Len(sent) < 2 THEN n + Len(sent) ELSE 2

\* The callback was not a goal delivery
NoDelivery ==
  /\ request' = NoGoal
  /\ recognized' = FALSE
  /\ accepted' = accepted
  /\ nres' = Count(nres, results')

\* The command source delivers a goal.  (The goal may arrive in any state:
\* a preempt request is a callback of its own, OnPreempt.)
OnGoal ==
  \E g \in Goal :
    \E m \in {GoalCallback(Machine, g)} :
      /\ Commit("GoalCallback", m)
      /\ request' = g
      /\ recognized' = FALSE
      /\ accepted' = (m.event # NoEvent)
      /\ nres' = Count(0, m.results)

\* The driver delivers a telemetry batch
OnJointState ==
  \E msg \in Batch :
    \E m \in {JointStateCallback(Machine, msg)} :
      /\ Commit("JointStateCallback", m)
      /\ request' = NoGoal
      /\ recognized' = Recognized(msg)
      /\ accepted' = accepted
      /\ nres' = Count(nres, m.results)

\* timer_goal_ is one-shot: it fires only when pending and is then stopped
OnTimeout ==
  /\ timer_goal
  /\ \E m \in {TimeoutCallback([Machine EXCEPT !.timer_goal = FALSE])} :
       Commit("TimeoutCallback", m)
  /\ NoDelivery

\* timer_watchdog_ is one-shot too
OnWatchdog ==
  /\ timer_watchdog
  /\ \E m \in {WatchdogCallback([Machine EXCEPT !.timer_watchdog = FALSE])} :
       Commit("WatchdogCallback", m)
  /\ NoDelivery

OnPreempt ==
  /\ \E m \in {PreemptCallback(Machine)} : Commit("PreemptCallback", m)
  /\ NoDelivery

OnCancel ==
  /\ \E m \in {CancelCallback(Machine)} : Commit("CancelCallback", m)
  /\ NoDelivery

OnSetState ==
  /\ \E s \in ArmState :
       \E m \in {SetStateCallback(Machine, s)} : Commit("SetStateCallback", m)
  /\ NoDelivery

OnReconfigure ==
  /\ \E c \in Config :
       \E m \in {ReconfigureCallback(Machine, c)} :
         Commit("ReconfigureCallback", m)
  /\ NoDelivery

\* The nodelet driven by its command source, the driver's telemetry and
\* its two timers
Next ==
  \/ OnGoal
  \/ OnJointState
  \/ OnTimeout
  \/ OnWatchdog
  \/ OnPreempt
  \/ OnCancel

Spec ==
  Init /\ [][Next]_vars

\* The same with the administrative interfaces: the manual state override
\* and the reconfiguration of the tolerances
NextAdmin ==
  \/ Next
  \/ OnSetState
  \/ OnReconfigure

SpecAdmin ==
  Init /\ [][NextAdmin]_vars

(***************************************************************************)
(* The nodelet under the scheduling its timers and its subscription give:  *)
(* the driver keeps publishing joint states the nodelet recognizes, and a  *)
(* started goal timer fires unless it is stopped first.  The watchdog      *)
(* fires only when telemetry stops, so nothing forces it.  The command     *)
(* source sends deploy, stow and stop, and the gripper is not reported.    *)
(***************************************************************************)
FairCommand ==
  {"ARM_DEPLOY", "ARM_STOW", "ARM_STOP"}

\* The goal delivered is one of FairCommand
OnFairGoal ==
  OnGoal /\ request'.command \in FairCommand

\* The batch delivered leaves the gripper value alone
OnFairJointState ==
  OnJointState /\ val'["GRIPPER"] = val["GRIPPER"]

NextFair ==
  \/ OnFairGoal
  \/ OnFairJointState
  \/ OnTimeout
  \/ OnWatchdog
  \/ OnPreempt
  \/ OnCancel

\* The driver delivers a batch that names a joint of the dictionary
OnRecognizedJointState ==
  OnJointState /\ recognized'

Fairness ==
  /\ WF_vars(OnRecognizedJointState)
  /\ WF_vars(OnTimeout)

SpecFair ==
  Init /\ [][NextFair]_vars /\ Fairness

(***************************************************************************)
(* The nodelet with telemetry that also shows the tilt one degree past the *)
(* stow tilt: a value within the larger tolerance of K_TILT_STOW and       *)
(* outside [K_TILT_MIN, K_TILT_MAX].                                       *)
(***************************************************************************)
\* Driver positions of a sample, with the tilt one unit past the stow tilt
WideSamplePosition(name) ==
  IF name = "arm_tilt"
    THEN SamplePosition(name) \cup {K_TILT_STOW - K_TILT_OFFSET + 1}
    ELSE SamplePosition(name)

WideSample ==
  UNION {[name : {n}, position : WideSamplePosition(n)] : n \in SampleName}

WideBatch ==
  UNION {[1..n -> WideSample] : n \in 0..MaxBatch}

\* The driver delivers a telemetry batch
OnJointStateWide ==
  \E msg \in WideBatch :
    \E m \in {JointStateCallback(Machine, msg)} :
      /\ Commit("JointStateCallback", m)
      /\ request' = NoGoal
      /\ recognized' = Recognized(msg)
      /\ accepted' = accepted
      /\ nres' = Count(nres, m.results)

NextWide ==
  \/ OnGoal
  \/ OnJointStateWide
  \/ OnTimeout
  \/ OnWatchdog
  \/ OnPreempt
  \/ OnCancel

SpecWide ==
  Init /\ [][NextWide]_vars

(***************************************************************************)
(* The transition table on its own: fsm_.Update applied to any event in    *)
(* any state.  The callbacks raise an event only in some states; this      *)
(* specification applies every event in every state, with the joint values *)
(* and goals the telemetry and the commands can leave.                     *)
(***************************************************************************)
\* Values a joint can have: the initial 0 and the telemetry values
JointValue(t) ==
  {0} \cup {ToHuman(t, p) : p \in SamplePosition(LowLevelName[t])}

\* Goals a joint can have: a value written by Result or ARM_STOP, a fixed
\* goal of deploy and stow, an accepted request, the calibration value
JointGoal(t) ==
  JointValue(t) \cup
  CASE t = "PAN"     -> {K_PAN_DEPLOY, K_PAN_STOW}
                        \cup {p \in PanRequest : K_PAN_MIN <= p /\ p <= K_PAN_MAX}
    [] t = "TILT"    -> {K_TILT_DEPLOY, K_TILT_STOW, K_GRIPPER_CAL}
                        \cup {x \in TiltRequest : K_TILT_MIN <= x /\ x <= K_TILT_MAX}
    [] t = "GRIPPER" -> {K_GRIPPER_DEPLOY, K_GRIPPER_STOW, K_GRIPPER_OPEN,
                         K_GRIPPER_CLOSE}

InitAny ==
  /\ state \in ArmState
  /\ val \in [JointType -> UNION {JointValue(t) : t \in JointType}]
  /\ \A t \in JointType : val[t] \in JointValue(t)
  /\ goal \in [JointType -> UNION {JointGoal(t) : t \in JointType}]
  /\ \A t \in JointType : goal[t] \in JointGoal(t)
  /\ tol \in Config
  /\ timer_goal = FALSE
  /\ timer_watchdog = FALSE
  /\ op = "Initialize"
  /\ from = state
  /\ request = NoGoal
  /\ recognized = FALSE
  /\ event = NoEvent
  /\ resolved = FALSE
  /\ code = NoResponse
  /\ results = <<>>
  /\ commands = <<>>
  /\ feedback = FALSE
  /\ accepted = FALSE
  /\ nres = 0

\* fsm_.Update(e)
OnUpdate ==
  /\ \E e \in Event :
       \E m \in {Update(Machine, e)} : Commit("Update", m)
  /\ NoDelivery

NextUpdate ==
  OnUpdate

SpecUpdate ==
  InitAny /\ [][NextUpdate]_vars

(***************************************************************************)
(* Result on its own: Result applied to any response code in any state,    *)
(* with and without the send flag, its return value given to the state     *)
(* machine the way WatchdogCallback gives it (fsm_.SetState(Result(...))). *)
(***************************************************************************)
\* fsm_.SetState(Result(response))
OnResult ==
  /\ \E response \in Response :
       \E r \in {Result(Machine, response, FALSE)} :
         Commit("Result", [r.m EXCEPT !.state = r.next])
  /\ NoDelivery

\* fsm_.SetState(Result(response, true))
OnForcedResult ==
  /\ \E response \in Response :
       \E r \in {Result(Machine, response, TRUE)} :
         Commit("ForcedResult", [r.m EXCEPT !.state = r.next])
  /\ NoDelivery

NextResult ==
  \/ OnResult
  \/ OnForcedResult

SpecResult ==
  InitAny /\ [][NextResult]_vars

(***************************************************************************)
(* Equal on its own: the wait states of JointStateCallback applied to      *)
(* joint values and goals drawn from a range of angles.  The telemetry has *)
(* stored the values; the switch compares the awaited joint with its goal  *)
(* and raises the completion event when Equal says they agree.             *)
(***************************************************************************)
\* Largest angle, in degrees, a joint value or a goal takes here
MaxAngle ==
  360

\* The angles within three degrees of a multiple of 90
Angle ==
  {a \in -MaxAngle..MaxAngle : a % 90 \in {0, 1, 2, 3, 87, 88, 89}}

\* The joint a wait state compares with its goal
Awaited(s) ==
  CASE s \in {"PANNING", "STOWING_PANNING", "DEPLOYING_PANNING"} -> "PAN"
    [] s \in {"TILTING", "STOWING_TILTING", "DEPLOYING_TILTING"} -> "TILT"
    [] s \in {"SETTING", "STOWING_SETTING"} -> "GRIPPER"

InitEqual ==
  /\ state \in {"PANNING", "TILTING", "SETTING"}
  /\ \E a \in Angle :
       val = [t \in JointType |-> IF t = Awaited(state) THEN a ELSE 0]
  /\ \E a \in Angle :
       goal = [t \in JointType |-> IF t = Awaited(state) THEN a ELSE 0]
  /\ tol \in Config
  /\ timer_goal = TRUE
  /\ timer_watchdog = TRUE
  /\ op = "Initialize"
  /\ from = state
  /\ request = NoGoal
  /\ recognized = FALSE
  /\ event = NoEvent
  /\ resolved = FALSE
  /\ code = NoResponse
  /\ results = <<>>
  /\ commands = <<>>
  /\ feedback = FALSE
  /\ accepted = TRUE
  /\ nres = 0

\* The switch of JointStateCallback in a wait state
OnWait ==
  /\ state \in {"PANNING", "TILTING", "SETTING"}
  /\ \E m \in {StateSwitch(Machine)} : Commit("StateSwitch", m)
  /\ request' = NoGoal
  /\ recognized' = TRUE
  /\ accepted' = accepted
  /\ nres' = Count(nres, results')

NextEqual ==
  OnWait

SpecEqual ==
  InitEqual /\ [][NextEqual]_vars

(***************************************************************************)
(* Claims                                                                  *)
(***************************************************************************)
Sent(response) ==
  <<[response |-> response, channel |-> Channel(response)]>>

\* C1: the deploy sequence.  In STOWED a deploy command moves the machine
\* to DEPLOYING_PANNING; in DEPLOYING_PANNING the event PAN_COMPLETE moves
\* it to DEPLOYING_TILTING; in DEPLOYING_TILTING the event TILT_COMPLETE,
\* with pan and tilt at the deploy pose, sends SUCCESS on the success
\* channel and moves it to DEPLOYED.
C1_DeploySequence ==
  /\ (op = "GoalCallback" /\ from = "STOWED" /\ request.command = "ARM_DEPLOY")
       => (state = "DEPLOYING_PANNING" /\ event = "GOAL_DEPLOY" /\ results = <<>>)
  /\ (from = "DEPLOYING_PANNING" /\ event = "PAN_COMPLETE")
       => (state = "DEPLOYING_TILTING" /\ results = <<>>)
  /\ (from = "DEPLOYING_TILTING" /\ event = "TILT_COMPLETE"
        /\ val["PAN"] = K_PAN_DEPLOY /\ val["TILT"] = K_TILT_DEPLOY)
       => (state = "DEPLOYED" /\ results = Sent("SUCCESS"))

\* A deploy has run to its end: the last tilt sample completed it
C1_Witness ==
  /\ op = "JointStateCallback"
  /\ from = "DEPLOYING_TILTING"
  /\ event = "TILT_COMPLETE"
  /\ val["PAN"] = K_PAN_DEPLOY /\ val["TILT"] = K_TILT_DEPLOY
  /\ state = "DEPLOYED"
  /\ results = Sent("SUCCESS")

\* C2: the command source receives exactly one result per accepted
\* command.  As long as the last goal delivered was accepted, it has got at
\* most one result, and when it has got none an action is in flight (the
\* machine is in a state that Result answers on leaving).
C2_ExactlyOneResult ==
  accepted => /\ nres <= 1
              /\ (nres = 0 => state \in TrackingStates)

\* An accepted goal that has no result and no action in flight gets no
\* result from any later callback: only the next goal delivery sends one,
\* and that one answers the next goal.
C2_NeverAnsweredLater ==
  [][(accepted /\ nres = 0 /\ state \notin TrackingStates
        /\ op' # "GoalCallback")
       => (accepted' /\ nres' = 0 /\ state' \notin TrackingStates)]_vars

\* What an ignored event leaves behind
C3_Ignored ==
  state' = state /\ goal' = goal /\ results' = <<>> /\ commands' = <<>>
    /\ resolved' = FALSE

\* C3: an event the table has no entry for in the current state is
\* ignored: the state and the three goals stay as they are, no result is
\* sent and no joint goal is published.  In particular the four completion
\* events are ignored in DEPLOYED, STOWED and UNKNOWN.
C3_AbsentEventIsNoOp ==
  [][/\ (op' = "Update" /\ Entries(state, event') = {}) => C3_Ignored
     /\ (op' = "Update"
           /\ state \in {"DEPLOYED", "STOWED", "UNKNOWN"}
           /\ event' \in {"PAN_COMPLETE", "TILT_COMPLETE",
                          "GRIPPER_COMPLETE", "CALIBRATE_COMPLETE"})
          => C3_Ignored]_vars

\* PAN_COMPLETE has been applied in DEPLOYED with goals that differ from
\* the values, and nothing moved
C3_Witness ==
  /\ op = "Update"
  /\ from = "DEPLOYED"
  /\ event = "PAN_COMPLETE"
  /\ state = "DEPLOYED"
  /\ goal["TILT"] # val["TILT"]
  /\ results = <<>>
  /\ commands = <<>>

\* C4: when the watchdog expires the machine goes to INITIALIZING from
\* whatever state it is in, every goal is the joint's current value, and
\* COMMUNICATION_ERROR is sent (as an aborted result) exactly when the
\* state left is one in which a goal is tracked; no joint goal is
\* published.
C4_WatchdogExpiry ==
  op = "WatchdogCallback" =>
    /\ state = "INITIALIZING"
    /\ goal = val
    /\ results = IF from \in TrackingStates
                   THEN <<[response |-> "COMMUNICATION_ERROR",
                           channel |-> "ABORTED"]>>
                   ELSE <<>>
    /\ commands = <<>>
    /\ ~timer_watchdog

\* The watchdog has expired while panning
C4_Witness ==
  /\ op = "WatchdogCallback"
  /\ from = "PANNING"
  /\ state = "INITIALIZING"
  /\ goal = val
  /\ results = Sent("COMMUNICATION_ERROR")

\* The failure code of the joint a tracking state waits for
FailureOf(s) ==
  CASE s \in {"PANNING", "STOWING_PANNING", "DEPLOYING_PANNING"} -> "PAN_FAILED"
    [] s \in {"TILTING", "STOWING_TILTING", "DEPLOYING_TILTING"} -> "TILT_FAILED"
    [] s \in {"SETTING", "STOWING_SETTING"} -> "GRIPPER_FAILED"
    [] s = "CALIBRATING" -> "CALIBRATE_FAILED"

\* C5: a goal timeout in any of the nine tracking states aborts the
\* sub-action: the failure code of the awaited joint is sent as an aborted
\* result and the machine goes to STOWED or DEPLOYED.
C5_TimeoutAborts ==
  (op = "TimeoutCallback" /\ from \in TrackingStates) =>
    /\ state \in {"STOWED", "DEPLOYED"}
    /\ results = <<[response |-> FailureOf(from), channel |-> "ABORTED"]>>

\* C6: every resolution of a sub-action (a call of Result by a transition
\* or by the watchdog on leaving a tracking state) publishes a hold-position joint goal for each of the
\* three joints: a goal at the joint's current value.
C6_ResultHoldsPosition ==
  (resolved /\ from \in TrackingStates
     /\ (event # NoEvent \/ op = "WatchdogCallback")) =>
    \A t \in JointType :
      \E i \in 1..Len(commands) :
        commands[i] = [name |-> LowLevelName[t],
                       position |-> ToDriver(t, val[t])]

\* The pan and tilt a pan, tilt or move request proposes, given the goals
\* g the joints have when it arrives
ProposedPan(r, g) ==
  IF r.command \in {"ARM_MOVE", "ARM_PAN"} THEN r.pan ELSE g["PAN"]

ProposedTilt(r, g) ==
  IF r.command \in {"ARM_MOVE", "ARM_TILT"} THEN r.tilt ELSE g["TILT"]

\* A pan, tilt or move request is delivered in STOWED or DEPLOYED
MoveDelivered ==
  /\ op' = "GoalCallback"
  /\ request'.command \in {"ARM_PAN", "ARM_TILT", "ARM_MOVE"}
  /\ state \in {"STOWED", "DEPLOYED"}

\* The delivery is rejected with the response: the result is sent as
\* aborted, the state stays, no event is raised, no joint goal published
RejectedWith(response) ==
  /\ results' = <<[response |-> response, channel |-> "ABORTED"]>>
  /\ state' = state
  /\ event' = NoEvent
  /\ commands' = <<>>

\* C7: a pan, tilt or move request in STOWED or DEPLOYED whose proposed
\* tilt is outside [K_TILT_MIN, K_TILT_MAX] is rejected with
\* BAD_TILT_VALUE (whatever the pan); one whose tilt is inside and whose
\* proposed pan is outside [K_PAN_MIN, K_PAN_MAX] is rejected with
\* BAD_PAN_VALUE; the rejection changes no state and publishes nothing.
C7_BoundsRejected ==
  [][MoveDelivered =>
       LET new_p == ProposedPan(request', goal)
           new_t == ProposedTilt(request', goal)
           tilt_ok == K_TILT_MIN <= new_t /\ new_t <= K_TILT_MAX
           pan_ok == K_PAN_MIN <= new_p /\ new_p <= K_PAN_MAX
       IN  /\ ~tilt_ok => RejectedWith("BAD_TILT_VALUE")
           /\ (tilt_ok /\ ~pan_ok) => RejectedWith("BAD_PAN_VALUE")
           /\ (tilt_ok /\ pan_ok) =>
                \A i \in 1..Len(results') :
                  results'[i].response \notin {"BAD_TILT_VALUE", "BAD_PAN_VALUE"}
    ]_vars

\* A move with both pan and tilt out of bounds has been rejected in
\* DEPLOYED for its tilt
C7_Witness ==
  /\ op = "GoalCallback"
  /\ request.command = "ARM_MOVE"
  /\ (request.pan < K_PAN_MIN \/ request.pan > K_PAN_MAX)
  /\ (request.tilt < K_TILT_MIN \/ request.tilt > K_TILT_MAX)
  /\ from = "DEPLOYED"
  /\ state = "DEPLOYED"
  /\ results = Sent("BAD_TILT_VALUE")
  /\ commands = <<>>

\* C8: a pan, tilt or move request in STOWED or DEPLOYED whose proposed pan
\* and tilt are within bounds is rejected with COLLISION_AVOIDED exactly
\* when the tilt is above K_TILT_SAFE and the pan is further than the
\* margin from K_PAN_STOW; otherwise the two goals become the proposed
\* values, GOAL_MOVE is raised and nothing is rejected.
C8_CollisionRejected ==
  [][MoveDelivered =>
       LET new_p == ProposedPan(request', goal)
           new_t == ProposedTilt(request', goal)
           in_bounds == /\ K_TILT_MIN <= new_t /\ new_t <= K_TILT_MAX
                        /\ K_PAN_MIN <= new_p /\ new_p <= K_PAN_MAX
           collides == new_t > K_TILT_SAFE
                         /\ 10 * Abs(new_p - K_PAN_STOW) > PanMarginTenths
       IN  in_bounds =>
             IF collides
               THEN RejectedWith("COLLISION_AVOIDED")
               ELSE /\ goal'["PAN"] = new_p
                    /\ goal'["TILT"] = new_t
                    /\ event' = "GOAL_MOVE"
                    /\ results' = <<>>
    ]_vars

\* The move to pan 45, tilt 150 has been rejected
C8_Witness ==
  /\ op = "GoalCallback"
  /\ request = [command |-> "ARM_MOVE", pan |-> 45, tilt |-> 150, gripper |-> 0]
  /\ from \in {"STOWED", "DEPLOYED"}
  /\ state = from
  /\ results = Sent("COLLISION_AVOIDED")
  /\ commands = <<>>

\* A move within bounds that does not collide has been accepted
C8_WitnessAccepted ==
  /\ op = "GoalCallback"
  /\ request = [command |-> "ARM_MOVE", pan |-> 45, tilt |-> 0, gripper |-> 0]
  /\ event = "GOAL_MOVE"
  /\ goal["PAN"] = 45 /\ goal["TILT"] = 0
  /\ state = "PANNING"

\* C9: a gripper set, open or close request is rejected with
\* NEED_TO_CALIBRATE whenever the gripper value is negative, in every
\* state and whatever opening it asks for: no transition, no event.  With
\* a gripper value that is not negative, in DEPLOYED, a set request whose
\* opening is outside [K_GRIPPER_CLOSE, K_GRIPPER_OPEN] is rejected with
\* BAD_GRIPPER_VALUE.
C9_GripperRejected ==
  (op = "GoalCallback"
     /\ request.command \in {"GRIPPER_SET", "GRIPPER_OPEN", "GRIPPER_CLOSE"}) =>
    /\ val["GRIPPER"] < 0 =>
         /\ results = <<[response |-> "NEED_TO_CALIBRATE", channel |-> "ABORTED"]>>
         /\ state = from
         /\ event = NoEvent
         /\ commands = <<>>
    /\ (val["GRIPPER"] >= 0 /\ from = "DEPLOYED"
          /\ request.command = "GRIPPER_SET"
          /\ (request.gripper < K_GRIPPER_CLOSE \/ request.gripper > K_GRIPPER_OPEN)) =>
         /\ results = <<[response |-> "BAD_GRIPPER_VALUE", channel |-> "ABORTED"]>>
         /\ state = from
         /\ event = NoEvent
         /\ commands = <<>>

\* A set request of 60 has been rejected in STOWED because the gripper is
\* not calibrated
C9_Witness ==
  /\ op = "GoalCallback"
  /\ request.command = "GRIPPER_SET"
  /\ request.gripper = 60
  /\ val["GRIPPER"] = K_GRIPPER_CAL
  /\ from = "STOWED"
  /\ state = "STOWED"
  /\ results = Sent("NEED_TO_CALIBRATE")

\* C10: a stow request in DEPLOYED goes to STOWING_SETTING, publishing the
\* gripper goal, exactly when the gripper value is neither within
\* tolerance of K_GRIPPER_CAL nor within tolerance of K_GRIPPER_STOW;
\* otherwise it publishes the pan goal and goes to STOWING_PANNING.
C10_StowFirstStep ==
  (op = "GoalCallback" /\ from = "DEPLOYED" /\ request.command = "ARM_STOW") =>
    IF ~Equal(Machine, "GRIPPER", K_GRIPPER_CAL)
         /\ ~Equal(Machine, "GRIPPER", K_GRIPPER_STOW)
      THEN /\ state = "STOWING_SETTING"
           /\ commands = <<[name |-> LowLevelName["GRIPPER"],
                            position |-> ToDriver("GRIPPER", K_GRIPPER_STOW)]>>
      ELSE /\ state = "STOWING_PANNING"
           /\ commands = <<[name |-> LowLevelName["PAN"],
                            position |-> ToDriver("PAN", K_PAN_STOW)]>>

\* A stow has skipped the gripper because it is already closed
C10_Witness ==
  /\ op = "GoalCallback"
  /\ from = "DEPLOYED"
  /\ request.command = "ARM_STOW"
  /\ val["GRIPPER"] = K_GRIPPER_STOW
  /\ state = "STOWING_PANNING"

\* A stow has started by closing the open gripper
C10_WitnessClosing ==
  /\ op = "GoalCallback"
  /\ from = "DEPLOYED"
  /\ request.command = "ARM_STOW"
  /\ val["GRIPPER"] = K_GRIPPER_OPEN
  /\ state = "STOWING_SETTING"

\* The states a command is valid from, for the commands that have a
\* restriction (every command of the switch but ARM_STOP)
SourceStates(c) ==
  CASE c = "ARM_DEPLOY" -> {"STOWED"}
    [] c = "ARM_STOW" -> {"DEPLOYED"}
    [] c \in {"ARM_PAN", "ARM_TILT", "ARM_MOVE"} -> {"STOWED", "DEPLOYED"}
    [] c = "GRIPPER_CALIBRATE" -> {"DEPLOYED"}
    [] c \in {"GRIPPER_SET", "GRIPPER_OPEN", "GRIPPER_CLOSE"} -> {"DEPLOYED"}

\* The last callback answered with the response, as an aborted result, and
\* neither changed the state nor raised an event
Refused(response) ==
  /\ results = <<[response |-> response, channel |-> "ABORTED"]>>
  /\ state = from
  /\ event = NoEvent
  /\ commands = <<>>

\* C11: a command is valid only from its source states.  A recognized
\* command delivered in another state (for the three gripper commands: with
\* a gripper value that is not negative) is answered with NOT_ALLOWED, an
\* unrecognized command with INVALID_COMMAND; a command that raises an
\* event was delivered in one of its source states; and every delivery that
\* raises no event is answered at once with exactly one aborted result,
\* without a change of state.
C11_NotAllowed ==
  op = "GoalCallback" =>
    LET c == request.command
        restricted == c \notin {"ARM_STOP", "OTHER"}
        calibrated == c \in {"GRIPPER_SET", "GRIPPER_OPEN", "GRIPPER_CLOSE"}
                        => val["GRIPPER"] >= 0
    IN  /\ (restricted /\ calibrated /\ from \notin SourceStates(c))
             => Refused("NOT_ALLOWED")
        /\ c = "OTHER" => Refused("INVALID_COMMAND")
        /\ (restricted /\ event # NoEvent) => from \in SourceStates(c)
        /\ event = NoEvent =>
             /\ Len(results) = 1
             /\ results[1].channel = "ABORTED"
             /\ state = from
             /\ commands = <<>>

\* A stow request has been refused in UNKNOWN, which the refusal did not
\* leave
C11_Witness ==
  /\ op = "GoalCallback"
  /\ request.command = "ARM_STOW"
  /\ from = "UNKNOWN"
  /\ state = "UNKNOWN"
  /\ results = Sent("NOT_ALLOWED")

\* An unrecognized command has been refused
C11_WitnessInvalid ==
  /\ op = "GoalCallback"
  /\ request.command = "OTHER"
  /\ state = from
  /\ results = Sent("INVALID_COMMAND")

\* C12: a command rejected with a validation error changes nothing: in
\* whatever state it arrives, the state and the goal of every joint are
\* after the rejection what they were before it.
C12_RejectionChangesNothing ==
  [][(op' = "GoalCallback" /\ event' = NoEvent
        /\ Len(results') = 1
        /\ results'[1].response \in
             {"BAD_PAN_VALUE", "BAD_TILT_VALUE", "BAD_GRIPPER_VALUE",
              "COLLISION_AVOIDED", "NEED_TO_CALIBRATE", "NOT_ALLOWED",
              "INVALID_COMMAND"})
       => (state' = state /\ goal' = goal)]_vars

\* What the rejection does keep: the state and the joint values.  The goals
\* it leaves are the joint values.
C12_RejectionKeepsState ==
  [][(op' = "GoalCallback" /\ event' = NoEvent)
       => (state' = state /\ val' = val /\ goal' = val)]_vars

\* C13: a stop request, in every state, sets the goal of pan, tilt and
\* gripper to the joint's current value and raises GOAL_CANCEL; the state
\* changes only if the table has a GOAL_CANCEL entry for the state the
\* request found, and without such an entry nothing is sent or published.
C13_Stop ==
  (op = "GoalCallback" /\ request.command = "ARM_STOP") =>
    /\ \A t \in JointType : goal[t] = val[t]
    /\ event = "GOAL_CANCEL"
    /\ state # from => Entries(from, "GOAL_CANCEL") # {}
    /\ Entries(from, "GOAL_CANCEL") = {} =>
         (state = from /\ results = <<>> /\ commands = <<>>)

\* A stop has cancelled a pan
C13_Witness ==
  /\ op = "GoalCallback"
  /\ request.command = "ARM_STOP"
  /\ from = "PANNING"
  /\ state \in {"STOWED", "DEPLOYED"}
  /\ event = "GOAL_CANCEL"
  /\ goal = val

\* A stop has found the machine in DEPLOYED and left it there
C13_WitnessIgnored ==
  /\ op = "GoalCallback"
  /\ request.command = "ARM_STOP"
  /\ from = "DEPLOYED"
  /\ state = "DEPLOYED"
  /\ event = "GOAL_CANCEL"
  /\ goal = val

\* C14: Result sets the goal of every joint to the joint's current value
\* and resolves the next state from the response code and the joint values
\* alone, whatever the state left and the send flag: INITIALIZING when the
\* code is COMMUNICATION_ERROR; otherwise STOWED when pan and tilt are both
\* within tolerance of the stow pose and DEPLOYED in every other case.  It
\* never resolves to UNKNOWN or to a state in which a goal is tracked.
C14_ResultResolution ==
  op \in {"Result", "ForcedResult"} =>
    /\ \A t \in JointType : goal[t] = val[t]
    /\ state = IF code = "COMMUNICATION_ERROR" THEN "INITIALIZING"
               ELSE IF Equal(Machine, "PAN", K_PAN_STOW)
                         /\ Equal(Machine, "TILT", K_TILT_STOW)
                 THEN "STOWED"
               ELSE "DEPLOYED"
    /\ state \in {"INITIALIZING", "STOWED", "DEPLOYED"}

\* Result has resolved a failed pan to STOWED, the arm being at the stow
\* pose
C14_Witness ==
  /\ op = "Result"
  /\ from = "PANNING"
  /\ code = "PAN_FAILED"
  /\ val["PAN"] = K_PAN_STOW /\ val["TILT"] = K_TILT_STOW
  /\ goal = val
  /\ state = "STOWED"

\* Result has resolved to DEPLOYED with the pan at the stow pan and the
\* tilt away from the stow tilt
C14_WitnessDeployed ==
  /\ op = "Result"
  /\ code = "SUCCESS"
  /\ val["PAN"] = K_PAN_STOW /\ val["TILT"] = K_TILT_DEPLOY
  /\ state = "DEPLOYED"

\* The nine states of an active sub-action
ActiveStates ==
  {"PANNING", "TILTING", "SETTING", "CALIBRATING", "STOWING_SETTING",
   "STOWING_PANNING", "STOWING_TILTING", "DEPLOYING_PANNING",
   "DEPLOYING_TILTING"}

\* C15: Result sends an outcome exactly when the state left is one of the
\* nine states of an active sub-action or the call is forced; it sends one
\* outcome, carrying the code, on the channel the sign of the code alone
\* chooses: success for a positive code, aborted for a negative one,
\* preempted for zero.
C15_SendDecision ==
  op \in {"Result", "ForcedResult"} =>
    /\ (results # <<>>) <=> (from \in ActiveStates \/ op = "ForcedResult")
    /\ results # <<>> =>
         /\ Len(results) = 1
         /\ results[1].response = code
         /\ results[1].channel =
              CASE Sign(code) > 0 -> "SUCCESS"
                [] Sign(code) < 0 -> "ABORTED"
                [] Sign(code) = 0 -> "PREEMPTED"

\* Result has sent the code zero as preempted on leaving TILTING, without
\* being forced
C15_Witness ==
  /\ op = "Result"
  /\ from = "TILTING"
  /\ code = "PREEMPTED"
  /\ results = <<[response |-> "PREEMPTED", channel |-> "PREEMPTED"]>>

\* Result has sent nothing on leaving DEPLOYED without being forced
C15_WitnessSilent ==
  /\ op = "Result"
  /\ from = "DEPLOYED"
  /\ code = "SUCCESS"
  /\ results = <<>>

\* The distance of two angles on the circle of 360 degrees
CircularDistance(a, b) ==
  LET d == (a - b) % 360
  IN  IF d > 180 THEN 360 - d ELSE d

\* C16: Equal is symmetric under the exchange of the joint's value and the
\* target, and is the equality of angles modulo 360 degrees: a wait state
\* finds the awaited joint at its goal, and raises the completion event,
\* exactly when the circular distance of value and goal is below the
\* joint's tolerance.
C16_EqualIsModular ==
  [][op' = "StateSwitch" =>
       LET t == Awaited(state)
       IN  /\ (event' # NoEvent)
                <=> (CircularDistance(val[t], goal[t]) < tol[t])
           /\ (event' # NoEvent)
                <=> Equal([Machine EXCEPT !.val = goal], t, val[t])
    ]_vars

\* Within one turn the claim holds: when value and goal differ by at most
\* 360 degrees, the completion event is raised exactly when their circular
\* distance is below the tolerance
C16_EqualWithinOneTurn ==
  [][(op' = "StateSwitch" /\ Abs(val[Awaited(state)] - goal[Awaited(state)]) <= 360)
       => ((event' # NoEvent)
             <=> (CircularDistance(val[Awaited(state)], goal[Awaited(state)])
                    < tol[Awaited(state)]))
    ]_vars

\* Equal answers the same when value and target are exchanged
C16_EqualIsSymmetric ==
  [][op' = "StateSwitch" =>
       ((event' # NoEvent)
          <=> Equal([Machine EXCEPT !.val = goal], Awaited(state),
                    val[Awaited(state)]))
    ]_vars

\* C17: a telemetry batch without a sample of a known joint name is a
\* no-op: the joint values, the goals, the state and the watchdog timer
\* stay as they are, no event is raised, nothing is sent or published and
\* no feedback is given.  A batch with a recognized sample leaves the
\* watchdog timer armed, and nothing else ever arms it: it is not armed
\* before the first such batch.
C17_UnrecognizedBatch ==
  [][/\ (op' = "JointStateCallback" /\ ~recognized') =>
          /\ val' = val /\ goal' = goal /\ state' = state
          /\ timer_watchdog' = timer_watchdog
          /\ timer_goal' = timer_goal
          /\ event' = NoEvent
          /\ results' = <<>> /\ commands' = <<>>
          /\ ~feedback'
     /\ (op' = "JointStateCallback" /\ recognized') => timer_watchdog'
     /\ (timer_watchdog' /\ ~timer_watchdog) =>
          (op' = "JointStateCallback" /\ recognized')
    ]_vars

\* A batch without a known name has arrived before any other, and the
\* watchdog is not armed
C17_Witness ==
  /\ op = "JointStateCallback"
  /\ ~recognized
  /\ from = "INITIALIZING"
  /\ state = "INITIALIZING"
  /\ ~timer_watchdog
  /\ event = NoEvent

\* A batch without a known name has arrived during a pan, and no feedback
\* has been given
C17_WitnessPanning ==
  /\ op = "JointStateCallback"
  /\ ~recognized
  /\ from = "PANNING"
  /\ state = "PANNING"
  /\ ~feedback

\* The seven states that have an entry for TIMEOUT and GOAL_CANCEL
Cancellable ==
  {"STOWING_SETTING", "STOWING_PANNING", "STOWING_TILTING", "PANNING",
   "TILTING", "SETTING", "CALIBRATING"}

\* C18: in STOWING_SETTING, STOWING_PANNING, STOWING_TILTING, PANNING,
\* TILTING, SETTING and CALIBRATING the events TIMEOUT and GOAL_CANCEL have
\* the same effect: one aborted result is sent, GRIPPER_FAILED for the two
\* gripper states, PAN_FAILED for the two pan states, TILT_FAILED for the
\* two tilt states, CALIBRATE_FAILED for CALIBRATING, the goals become the
\* joint values, and the machine goes to STOWED when pan and tilt are at
\* the stow pose and to DEPLOYED otherwise.
C18_TimeoutAsCancel ==
  (from \in Cancellable /\ event \in {"TIMEOUT", "GOAL_CANCEL"}) =>
    /\ results =
         <<[response |->
              CASE from \in {"STOWING_SETTING", "SETTING"} -> "GRIPPER_FAILED"
                [] from \in {"STOWING_PANNING", "PANNING"} -> "PAN_FAILED"
                [] from \in {"STOWING_TILTING", "TILTING"} -> "TILT_FAILED"
                [] from = "CALIBRATING" -> "CALIBRATE_FAILED",
            channel |-> "ABORTED"]>>
    /\ state = IF Equal(Machine, "PAN", K_PAN_STOW)
                    /\ Equal(Machine, "TILT", K_TILT_STOW)
                 THEN "STOWED" ELSE "DEPLOYED"
    /\ goal = val
    /\ commands = <<>>

\* The goal timer has fired during the pan of a stow
C18_Witness ==
  /\ op = "TimeoutCallback"
  /\ from = "STOWING_PANNING"
  /\ event = "TIMEOUT"
  /\ results = Sent("PAN_FAILED")
  /\ state \in {"STOWED", "DEPLOYED"}

\* The pan of a stow has been cancelled
C18_WitnessCancel ==
  /\ op = "CancelCallback"
  /\ from = "STOWING_PANNING"
  /\ event = "GOAL_CANCEL"
  /\ results = Sent("PAN_FAILED")
  /\ state \in {"STOWED", "DEPLOYED"}

\* C19 (its case does not arise): Arm fails only for a joint that is not
\* in joints_, and Initialize registers pan, tilt and gripper before any
\* callback can run.  No transition that starts or continues an action ever
\* gives up with the failure code of its joint: after a goal event, or a
\* completion event that leads to a next step, no failure result is sent.
C19_NeverShortCircuits ==
  (event \in {"GOAL_DEPLOY", "GOAL_STOW", "GOAL_MOVE", "GOAL_SET",
              "GOAL_CALIBRATE", "PAN_COMPLETE", "GRIPPER_COMPLETE"}) =>
    /\ \A i \in 1..Len(results) :
         results[i].response \notin {"PAN_FAILED", "TILT_FAILED",
                                     "GRIPPER_FAILED", "CALIBRATE_FAILED"}
    /\ \A t \in JointType : Arm(Machine, t).ok

C20_WitnessManualDeploy ==
  /\ op = "JointStateCallback"
  /\ recognized
  /\ from = "STOWED"
  /\ event = "DEPLOYED"
  /\ state = "DEPLOYED"

\* A batch has shown the arm still at the stow pose
C20_WitnessStillStowed ==
  /\ op = "JointStateCallback"
  /\ recognized
  /\ from = "STOWED"
  /\ event = NoEvent
  /\ state = "STOWED"

\* The first recognized batch, with the arm at the stow tilt, has led to
\* UNKNOWN
C20_WitnessReady ==
  /\ op = "JointStateCallback"
  /\ recognized
  /\ from = "INITIALIZING"
  /\ event = "READY"
  /\ state = "UNKNOWN"
  /\ val["TILT"] = K_TILT_STOW

\* C21: in a state in which a goal is tracked, a telemetry batch with a
\* recognized sample raises the completion event of the awaited joint, and
\* no other event, exactly when the value of that joint after the batch is
\* within tolerance of its goal: PAN_COMPLETE in the three pan states,
\* TILT_COMPLETE in the three tilt states, GRIPPER_COMPLETE in SETTING and
\* STOWING_SETTING; in CALIBRATING it raises CALIBRATE_COMPLETE exactly
\* when the gripper value is not within tolerance of K_GRIPPER_CAL.  The
\* goal timer is stopped before the event is raised: when the event
\* completes the action with SUCCESS, no goal timeout is pending.  Without
\* an event the state and the goal timer stay as they are.
C21_Completion ==
  [][(op' = "JointStateCallback" /\ recognized' /\ state \in TrackingStates) =>
       LET after == [Machine EXCEPT !.val = val']
           raised(b, e) == event' = IF b THEN e ELSE NoEvent
       IN  /\ state \in {"PANNING", "STOWING_PANNING", "DEPLOYING_PANNING"} =>
                raised(Equal(after, "PAN", goal["PAN"]), "PAN_COMPLETE")
           /\ state \in {"TILTING", "STOWING_TILTING", "DEPLOYING_TILTING"} =>
                raised(Equal(after, "TILT", goal["TILT"]), "TILT_COMPLETE")
           /\ state \in {"SETTING", "STOWING_SETTING"} =>
                raised(Equal(after, "GRIPPER", goal["GRIPPER"]),
                       "GRIPPER_COMPLETE")
           /\ state = "CALIBRATING" =>
                raised(~Equal(after, "GRIPPER", K_GRIPPER_CAL),
                       "CALIBRATE_COMPLETE")
           /\ (event' # NoEvent /\ results' = Sent("SUCCESS")) => ~timer_goal'
           /\ event' = NoEvent =>
                (state' = state /\ timer_goal' = timer_goal /\ results' = <<>>)
    ]_vars

\* The tilt of a move has been reached: SUCCESS is sent and no goal timeout
\* is pending
C21_Witness ==
  /\ op = "JointStateCallback"
  /\ from = "TILTING"
  /\ event = "TILT_COMPLETE"
  /\ results = Sent("SUCCESS")
  /\ ~timer_goal

\* A batch has arrived during a pan with the pan away from its goal, the
\* goal timer pending
C21_WitnessWaiting ==
  /\ op = "JointStateCallback"
  /\ recognized
  /\ from = "PANNING"
  /\ state = "PANNING"
  /\ event = NoEvent
  /\ val["PAN"] # goal["PAN"]
  /\ timer_goal

\* The calibration has completed
C21_WitnessCalibrated ==
  /\ op = "JointStateCallback"
  /\ from = "CALIBRATING"
  /\ event = "CALIBRATE_COMPLETE"
  /\ results = Sent("SUCCESS")
  /\ ~timer_goal

\* C22: the goal timer is one-shot and every joint command stops and
\* starts it.  The timer fires only when it is pending and is not pending
\* after it has fired; every callback that publishes a joint command leaves
\* the timer armed; a state in which a goal is tracked is entered only by a
\* callback that publishes a joint command, which arms the timer for that
\* sub-action; and as long as the machine stays in that state no callback
\* publishes a joint command or arms the timer.  So a timeout that takes
\* effect in such a state was armed by the joint command of that
\* sub-action.
C22_GoalTimer ==
  [][/\ op' = "TimeoutCallback" => (timer_goal /\ ~timer_goal')
     /\ commands' # <<>> => timer_goal'
     /\ (state' \in TrackingStates /\ state' # state) =>
          (Len(commands') = 1 /\ timer_goal')
     /\ (state \in TrackingStates /\ state' = state) =>
          (commands' = <<>> /\ (timer_goal' => timer_goal))
     /\ (timer_goal' /\ ~timer_goal) => commands' # <<>>
    ]_vars

\* The goal timer armed on entering TILTING, the second step of a move, has
\* fired there
C22_Witness ==
  /\ op = "TimeoutCallback"
  /\ from = "TILTING"
  /\ event = "TIMEOUT"
  /\ results = Sent("TILT_FAILED")
  /\ ~timer_goal

\* A cancelled pan has left the goal timer pending in a state in which no
\* goal is tracked
C22_WitnessLeftPending ==
  /\ op = "CancelCallback"
  /\ from = "PANNING"
  /\ state = "DEPLOYED"
  /\ timer_goal

\* C23: a calibrate request delivered in DEPLOYED sets the tilt goal to
\* K_GRIPPER_CAL, leaves the pan goal and the gripper goal as they are and
\* raises GOAL_CALIBRATE; the machine enters CALIBRATING and the one joint
\* goal published is a gripper goal carrying the gripper goal as it was
\* before the request.
C23_Calibrate ==
  [][(op' = "GoalCallback" /\ request'.command = "GRIPPER_CALIBRATE"
        /\ state = "DEPLOYED") =>
       /\ goal'["TILT"] = K_GRIPPER_CAL
       /\ goal'["PAN"] = goal["PAN"]
       /\ goal'["GRIPPER"] = goal["GRIPPER"]
       /\ event' = "GOAL_CALIBRATE"
       /\ state' = "CALIBRATING"
       /\ results' = <<>>
       /\ commands' = <<[name |-> LowLevelName["GRIPPER"],
                         position |-> ToDriver("GRIPPER", goal["GRIPPER"])]>>
    ]_vars

\* A calibration has started with the arm tilted to 180 and the gripper
\* goal at K_GRIPPER_OPEN: the tilt goal is K_GRIPPER_CAL, the gripper goal
\* is published as it was
C23_Witness ==
  /\ op = "GoalCallback"
  /\ request.command = "GRIPPER_CALIBRATE"
  /\ from = "DEPLOYED"
  /\ state = "CALIBRATING"
  /\ val["TILT"] = K_TILT_STOW
  /\ goal["TILT"] = K_GRIPPER_CAL
  /\ goal["GRIPPER"] = K_GRIPPER_OPEN
  /\ commands = <<[name |-> LowLevelName["GRIPPER"],
                   position |-> ToDriver("GRIPPER", K_GRIPPER_OPEN)]>>

\* C24: without manual state override and reconfiguration of the
\* tolerances, after every callback: when the state is STOWED, pan and
\* tilt are both within tolerance of the stow pose, and when the state is
\* DEPLOYED they are not.
C24_StowedIffAtStowPose ==
  LET at_stow == Equal(Machine, "PAN", K_PAN_STOW)
                   /\ Equal(Machine, "TILT", K_TILT_STOW)
  IN  /\ state = "STOWED" => at_stow
      /\ state = "DEPLOYED" => ~at_stow

\* A pan that started in STOWED has timed out with the arm still at the
\* stow pose, and the machine is back in STOWED
C24_Witness ==
  /\ op = "TimeoutCallback"
  /\ from = "PANNING"
  /\ state = "STOWED"
  /\ val["PAN"] = K_PAN_STOW /\ val["TILT"] = K_TILT_STOW

\* Telemetry has shown the arm away from the stow pose and the machine has
\* left STOWED for DEPLOYED
C24_WitnessMoved ==
  /\ op = "JointStateCallback"
  /\ from = "STOWED"
  /\ state = "DEPLOYED"
  /\ val["TILT"] # K_TILT_STOW

\* C25: the self-collision constraint holds along the motion: whenever a
\* pan goal is published that is further than the margin from K_PAN_STOW,
\* the tilt the telemetry has last shown is not above K_TILT_SAFE.
C25_CollisionFreeMotion ==
  \A i \in 1..Len(commands) :
    (commands[i].name = LowLevelName["PAN"]
       /\ 10 * Abs(ToHuman("PAN", commands[i].position) - K_PAN_STOW)
            > PanMarginTenths)
      => val["TILT"] <= K_TILT_SAFE

\* What the check of GoalCallback does ensure: a move accepted in STOWED or
\* DEPLOYED has targets that do not collide, whatever the tilt is now
C25_TargetsDoNotCollide ==
  (op = "GoalCallback" /\ event = "GOAL_MOVE") =>
    ~(goal["TILT"] > K_TILT_SAFE
        /\ 10 * Abs(goal["PAN"] - K_PAN_STOW) > PanMarginTenths)

\* C26: every pan goal published carries a goal within
\* [K_PAN_MIN, K_PAN_MAX] and every tilt goal published a goal within
\* [K_TILT_MIN, K_TILT_MAX], after any sequence of commands, telemetry
\* batches, timeouts and cancels.
C26_CommandsWithinBounds ==
  \A i \in 1..Len(commands) :
    /\ commands[i].name = LowLevelName["PAN"] =>
         /\ K_PAN_MIN <= ToHuman("PAN", commands[i].position)
         /\ ToHuman("PAN", commands[i].position) <= K_PAN_MAX
    /\ commands[i].name = LowLevelName["TILT"] =>
         /\ K_TILT_MIN <= ToHuman("TILT", commands[i].position)
         /\ ToHuman("TILT", commands[i].position) <= K_TILT_MAX

\* C27: whenever SUCCESS is reported for an action, the value of the joint
\* awaited by its final sub-action is within tolerance of the goal the
\* originating command set for it.  Stated for the two actions whose goal is
\* a constant of the nodelet: the deploy tilt for a deploy (reported from
\* DEPLOYING_TILTING) and the stow tilt for a stow (reported from
\* STOWING_TILTING).
C27_SuccessAtOriginatingGoal ==
  (op = "JointStateCallback" /\ code = "SUCCESS") =>
    /\ from = "DEPLOYING_TILTING" =>
         Abs(val["TILT"] - K_TILT_DEPLOY) < tol["TILT"]
    /\ from = "STOWING_TILTING" =>
         Abs(val["TILT"] - K_TILT_STOW) < tol["TILT"]

\* C28: no action stays in flight forever.  While recognized telemetry
\* keeps arriving and a started goal timer eventually fires, from every
\* sub-action state the machine eventually reaches STOWED, DEPLOYED or
\* INITIALIZING, even if the awaited joint never comes within tolerance of
\* its goal.
C28_NoActionForever ==
  (state \in TrackingStates) ~> (state \in {"STOWED", "DEPLOYED", "INITIALIZING"})

====
